---- MODULE Spec2Model ----
(***************************************************************************)
(* The SHA-256 message schedule of the table16 chip:                       *)
(*   gadget/sha256/table16/gates.rs              the gate library          *)
(*   gadget/sha256/table16/message_scheduler.rs  MessageScheduler          *)
(*                                                                         *)
(* Numbers.  TLC's integers are 32 bits wide, while the gates work with    *)
(* u64 constants up to 2^62 and with field elements.  A machine integer    *)
(* (u16, u32, u64) is therefore a little-endian sequence of base-256       *)
(* digits without trailing zeros (0 is <<>>), and a field element is a     *)
(* signed integer [neg, mag].  The field F is a prime field of about 255   *)
(* bits; every value the gates take on the inputs below is smaller than    *)
(* 2^200 in magnitude, so arithmetic in F agrees with integer arithmetic   *)
(* and an element is zero in F exactly when the integer is zero.           *)
(***************************************************************************)
EXTENDS Integers, Sequences, FiniteSets, TLC

VARIABLES
    meta,      \* the ConstraintSystem: fixed columns allocated, gates created
    config,    \* the MessageScheduler returned by new, <<>> before
    input,     \* the 16 BlockWords handed to process: <<value>> or <<>> (None)
    pc,        \* where the caller's configure / process sequence stands
    advice,    \* the region's advice cells: the writes made, in order
    fixed,     \* the region's fixed cells: the writes made, in order
    w,         \* the vector w of MessageWords process has pushed
    result,    \* how process ended: "none", "ok", "SynthesisError", "panic"
    ev,        \* a gate-library call: the function and its arguments
    out        \* its result: <<>> before the call, <<value>> after

vars == <<meta, config, input, pc, advice, fixed, w, result, ev, out>>

schedulerVars == <<meta, config, input, pc, advice, fixed, w, result>>

\* ------------------------------------------------------------------------
\* Machine integers: base-256 digit sequences
\* ------------------------------------------------------------------------

Base == 2^8

RECURSIVE NatFromInt(_)
NatFromInt(n) ==
    IF n = 0 THEN <<>> ELSE <<n % Base>> \o NatFromInt(n \div Base)

RECURSIVE NatStrip(_)
NatStrip(a) ==
    IF a = <<>> THEN <<>>
    ELSE IF a[Len(a)] = 0 THEN NatStrip(SubSeq(a, 1, Len(a) - 1))
    ELSE a

Digit(a, i) == IF i <= Len(a) THEN a[i] ELSE 0

RECURSIVE NatAddC(_, _, _)
NatAddC(a, b, c) ==
    IF a = <<>> /\ b = <<>>
    THEN (IF c = 0 THEN <<>> ELSE <<c>>)
    ELSE LET s == Digit(a, 1) + Digit(b, 1) + c
         IN  <<s % Base>> \o NatAddC(IF a = <<>> THEN a ELSE Tail(a),
                                     IF b = <<>> THEN b ELSE Tail(b),
                                     s \div Base)

NatAdd(a, b) == NatAddC(a, b, 0)

\* a - b for a >= b, digit by digit with a borrow
RECURSIVE NatSubB(_, _, _)
NatSubB(a, b, borrow) ==
    IF a = <<>> THEN <<>>
    ELSE LET d == a[1] - Digit(b, 1) - borrow
         IN  <<d % Base>> \o NatSubB(Tail(a),
                                     IF b = <<>> THEN b ELSE Tail(b),
                                     IF d < 0 THEN 1 ELSE 0)

NatSub(a, b) == NatStrip(NatSubB(a, b, 0))

\* a < b on canonical digit sequences: compared from the top digit down
RECURSIVE NatLessFrom(_, _, _)
NatLessFrom(a, b, i) ==
    IF i = 0 THEN FALSE
    ELSE IF a[i] # b[i] THEN a[i] < b[i]
    ELSE NatLessFrom(a, b, i - 1)

NatLess(a, b) ==
    IF Len(a) # Len(b) THEN Len(a) < Len(b) ELSE NatLessFrom(a, b, Len(a))

RECURSIVE NatMulDigit(_, _, _)
NatMulDigit(a, d, c) ==
    IF a = <<>> THEN (IF c = 0 THEN <<>> ELSE <<c>>)
    ELSE LET p == a[1] * d + c
         IN  <<p % Base>> \o NatMulDigit(Tail(a), d, p \div Base)

RECURSIVE NatMul(_, _)
NatMul(a, b) ==
    IF a = <<>> \/ b = <<>> THEN <<>>
    ELSE LET rest == NatMul(a, Tail(b))
         IN  NatAdd(NatStrip(NatMulDigit(a, b[1], 0)),
                    IF rest = <<>> THEN <<>> ELSE <<0>> \o rest)

\* 1 << k as a u64
RECURSIVE Shl1(_)
Shl1(k) == IF k < 8 THEN <<2^k>> ELSE <<0>> \o Shl1(k - 8)

\* The bits of a machine integer, least significant first, to a given width
RECURSIVE DigitBits(_, _)
DigitBits(d, n) ==
    IF n = 0 THEN <<>> ELSE <<d % 2>> \o DigitBits(d \div 2, n - 1)

RECURSIVE NatBits(_, _)
NatBits(a, width) ==
    IF width = 0 THEN <<>>
    ELSE DigitBits(Digit(a, 1), 8) \o
         NatBits(IF a = <<>> THEN a ELSE Tail(a), width - 8)

RECURSIVE BitsInt(_)
BitsInt(bits) ==
    IF bits = <<>> THEN 0 ELSE bits[1] + 2 * BitsInt(Tail(bits))

RECURSIVE BitsDigits(_)
BitsDigits(bits) ==
    IF bits = <<>> THEN <<>>
    ELSE IF Len(bits) <= 8 THEN <<BitsInt(bits)>>
    ELSE <<BitsInt(SubSeq(bits, 1, 8))>> \o
         BitsDigits(SubSeq(bits, 9, Len(bits)))

\* bits, least significant first, back to a machine integer
BitsNat(bits) == NatStrip(BitsDigits(bits))

\* ------------------------------------------------------------------------
\* Field elements (FieldExt): signed integers
\* ------------------------------------------------------------------------

FMake(neg, mag) == [neg |-> neg /\ mag # <<>>, mag |-> mag]

\* F::from_u64
from_u64(n) == FMake(FALSE, n)

\* F::zero(), F::one()
FZero == from_u64(<<>>)
FOne == from_u64(<<1>>)

\* -x
FNeg(x) == FMake(~x.neg, x.mag)

\* x + y
FAdd(x, y) ==
    IF x.neg = y.neg THEN FMake(x.neg, NatAdd(x.mag, y.mag))
    ELSE IF NatLess(x.mag, y.mag) THEN FMake(y.neg, NatSub(y.mag, x.mag))
    ELSE FMake(x.neg, NatSub(x.mag, y.mag))

\* x * y
FMul(x, y) == FMake(x.neg # y.neg, NatMul(x.mag, y.mag))

\* a small signed integer as a field element
FInt(n) == IF n < 0 THEN FMake(TRUE, NatFromInt(-n)) ELSE from_u64(NatFromInt(n))

RECURSIVE FSum(_)
FSum(xs) == IF xs = <<>> THEN FZero ELSE FAdd(xs[1], FSum(Tail(xs)))

\* ------------------------------------------------------------------------
\* gates.rs: the gate library.  A gate is modelled by the value its
\* expression takes when the queried cells hold the given field elements.
\* ------------------------------------------------------------------------

\* Expression::Ones(): the expression that is 1 on every row
Ones == FOne

\* F::from_u64(1 << k)
Pow2(k) == from_u64(Shl1(k))

\* Self::ones * (-F::one()) * F::from_u64(i) + value
MinusConst(i, value) ==
    FAdd(FMul(FMul(Ones, FNeg(FOne)), from_u64(NatFromInt(i))), value)

\* fn factorial(n: u64) -> u64   (n <= 12 here: no u64 wrap-around)
RECURSIVE factorial(_)
factorial(n) == IF n < 2 THEN 1 ELSE n * factorial(n - 1)

\* the closure numerator: the loop `for i in 0..deg`, from i on
RECURSIVE numerator_loop(_, _, _, _, _)
numerator_loop(var, idx, i, deg, expr) ==
    IF i >= deg THEN expr
    ELSE numerator_loop(var, idx, i + 1, deg,
                        IF i # idx THEN FMul(expr, MinusConst(idx, var))
                        ELSE expr)

numerator(var, eval, idx, deg) ==
    FMul(numerator_loop(var, idx, 0, deg, Ones), from_u64(NatFromInt(eval)))

\* the closure denominator: `denom` is an i32 (deg <= 12 here: no overflow)
RECURSIVE denom_loop(_, _, _, _)
denom_loop(idx, i, deg, denom) ==
    IF i >= deg THEN denom
    ELSE denom_loop(idx, i + 1, deg,
                    IF i # idx THEN denom * (idx - i) ELSE denom)

denominator(idx, deg, factor) ==
    LET denom == denom_loop(idx, 0, deg, 1)
    IN  IF denom < 0
        THEN FMul(FNeg(FOne), from_u64(NatFromInt(factor \div (-denom))))
        ELSE from_u64(NatFromInt(factor \div denom))

\* the loop over points.iter().enumerate().zip(evals.iter()), from idx on
RECURSIVE lagrange_loop(_, _, _, _, _, _)
lagrange_loop(var, evals, idx, deg, factor, expr) ==
    IF idx >= deg THEN expr
    ELSE lagrange_loop(var, evals, idx + 1, deg, factor,
                       FAdd(expr, FMul(numerator(var, evals[idx + 1], idx, deg),
                                       denominator(idx, deg, factor))))

\* fn lagrange_interpolate(var, points, evals) -> (F, Expression<F>)
lagrange_interpolate(var, points, evals) ==
    LET deg    == Len(points)
        factor == factorial(Len(points))
    IN  [factor |-> from_u64(NatFromInt(factor)),
         expr   |-> lagrange_loop(var, evals, 0, deg, factor, Ones)]

\* the loop `for i in lower_range..(upper_range + 1)`, from i on
RECURSIVE range_loop(_, _, _, _)
range_loop(value, i, upper_range, expr) ==
    IF i >= upper_range + 1 THEN expr
    ELSE range_loop(value, i + 1, upper_range, FMul(expr, MinusConst(i, value)))

\* the same loop with an exclusive upper end
RECURSIVE range_loop_excl(_, _, _, _)
range_loop_excl(value, i, upper_range, expr) ==
    IF i >= upper_range THEN expr
    ELSE range_loop_excl(value, i + 1, upper_range,
                         FMul(expr, MinusConst(i, value)))

range_check_excl(value, lower_range, upper_range) ==
    range_loop_excl(value, lower_range, upper_range, Ones)

\* fn range_check(value, lower_range, upper_range)
range_check(value, lower_range, upper_range) ==
    range_loop(value, lower_range, upper_range, Ones)

two_bit_range_check(value) == range_check(value, 0, 2^2 - 1)

three_bit_range_check(value) == range_check(value, 0, 2^3 - 1)

two_bit_spread(dense, spread) ==
    LET li == lagrange_interpolate(dense, <<0, 1, 2, 3>>, <<0, 1, 4, 5>>)
    IN  FAdd(li.expr, FMul(FMul(spread, li.factor), FNeg(FOne)))

three_bit_spread(dense, spread) ==
    LET li == lagrange_interpolate(dense, <<0, 1, 2, 3, 4, 5, 6, 7>>,
                                   <<0, 1, 4, 5, 16, 17, 20, 21>>)
    IN  FAdd(li.expr, FMul(FMul(spread, li.factor), FNeg(FOne)))

\* pub fn s22: the selector parameter is not used
s22(sel, dense_0, spread_0, dense_1, spread_1) ==
    FSum(<<two_bit_range_check(dense_0), two_bit_range_check(dense_1),
           two_bit_spread(dense_0, spread_0), two_bit_spread(dense_1, spread_1)>>)

\* pub fn s23: the selector parameter is not used
s23(sel, dense_0, spread_0, dense_1, spread_1) ==
    FSum(<<two_bit_range_check(dense_0), three_bit_range_check(dense_1),
           two_bit_spread(dense_0, spread_0), three_bit_spread(dense_1, spread_1)>>)

\* s_decompose_1 with the 14-bit chunk one bit too low
s_decompose_1_shift17(sel, a, b, c, d, word) ==
    FMul(sel, FSum(<<a, FMul(b, Pow2(3)), FMul(c, Pow2(7)), FMul(d, Pow2(17)),
                     FMul(word, FNeg(FOne))>>))

s_decompose_0(sel, lo, hi, word) ==
    FMul(sel, FSum(<<lo, FMul(hi, Pow2(16)), FMul(word, FNeg(FOne))>>))

s_decompose_1(sel, a, b, c, d, word) ==
    FMul(sel, FSum(<<a, FMul(b, Pow2(3)), FMul(c, Pow2(7)), FMul(d, Pow2(18)),
                     FMul(word, FNeg(FOne))>>))

s_decompose_2(sel, a, b, c, d, e, f, g, word) ==
    FMul(sel, FSum(<<a, FMul(b, Pow2(3)), FMul(c, Pow2(7)), FMul(d, Pow2(10)),
                     FMul(e, Pow2(17)), FMul(f, Pow2(18)), FMul(g, Pow2(19)),
                     FMul(word, FNeg(FOne))>>))

s_decompose_3(sel, a, b, c, d, word) ==
    FMul(sel, FSum(<<a, FMul(b, Pow2(10)), FMul(c, Pow2(17)), FMul(d, Pow2(19)),
                     FMul(word, FNeg(FOne))>>))

\* s_word with the carry weighted by 2^33 instead of 2^32
s_word_carry33(sel, sigma_0_lo, sigma_1_lo, w_7_lo, w_16_lo, sigma_0_hi, sigma_1_hi, w_7_hi, w_16_hi, word, carry) ==
    LET lo == FSum(<<sigma_0_lo, sigma_1_lo, w_7_lo, w_16_lo>>)
        hi == FSum(<<sigma_0_hi, sigma_1_hi, w_7_hi, w_16_hi>>)
        word_check == FSum(<<lo, FMul(hi, Pow2(16)), FMul(word, FNeg(FOne)),
                             FMul(FMul(carry, FNeg(FOne)), Pow2(33))>>)
        carry_check == range_check(carry, 0, 3)
    IN  FMul(sel, FAdd(word_check, carry_check))

s_word(sel, sigma_0_lo, sigma_1_lo, w_7_lo, w_16_lo, sigma_0_hi, sigma_1_hi, w_7_hi, w_16_hi, word, carry) ==
    LET lo == FSum(<<sigma_0_lo, sigma_1_lo, w_7_lo, w_16_lo>>)
        hi == FSum(<<sigma_0_hi, sigma_1_hi, w_7_hi, w_16_hi>>)
        word_check == FSum(<<lo, FMul(hi, Pow2(16)), FMul(word, FNeg(FOne)),
                             FMul(FMul(carry, FNeg(FOne)), Pow2(32))>>)
        carry_check == range_check(carry, 0, 3)
    IN  FMul(sel, FAdd(word_check, carry_check))

\* spread_r0_even + spread_r0_odd * 2 + (spread_r1_even + spread_r1_odd * 2) * 2^32
spread_witness(r0_even, r0_odd, r1_even, r1_odd) ==
    FSum(<<r0_even, FMul(r0_odd, from_u64(<<2>>)),
           FMul(FAdd(r1_even, FMul(r1_odd, from_u64(<<2>>))), Pow2(32))>>)

\* s_lower_sigma_0 with spread_a placed at bit 48 of ROTR^7 instead of bit 50
s_lower_sigma_0_shift48(sel, r0_even, r0_odd, r1_even, r1_odd, spread_a, spread_b_lo, spread_b_hi, spread_c, spread_d) ==
    LET xor_0 == FSum(<<spread_b_lo, FMul(spread_b_hi, Pow2(4)),
                        FMul(spread_c, Pow2(8)), FMul(spread_d, Pow2(30))>>)
        xor_1 == FSum(<<spread_c, FMul(spread_d, Pow2(22)),
                        FMul(spread_a, Pow2(48)), FMul(spread_b_lo, Pow2(56)),
                        FMul(spread_b_hi, Pow2(60))>>)
        xor_2 == FSum(<<spread_d, FMul(spread_a, Pow2(28)),
                        FMul(spread_b_lo, Pow2(34)), FMul(spread_b_hi, Pow2(38)),
                        FMul(spread_c, Pow2(42))>>)
        xor   == FSum(<<xor_0, xor_1, xor_2>>)
    IN  FAdd(spread_witness(r0_even, r0_odd, r1_even, r1_odd),
             FMul(xor, FNeg(FOne)))

\* pub fn s_lower_sigma_0: the selector parameter is not used
s_lower_sigma_0(sel, r0_even, r0_odd, r1_even, r1_odd, spread_a, spread_b_lo, spread_b_hi, spread_c, spread_d) ==
    LET xor_0 == FSum(<<spread_b_lo, FMul(spread_b_hi, Pow2(4)),
                        FMul(spread_c, Pow2(8)), FMul(spread_d, Pow2(30))>>)
        xor_1 == FSum(<<spread_c, FMul(spread_d, Pow2(22)),
                        FMul(spread_a, Pow2(50)), FMul(spread_b_lo, Pow2(56)),
                        FMul(spread_b_hi, Pow2(60))>>)
        xor_2 == FSum(<<spread_d, FMul(spread_a, Pow2(28)),
                        FMul(spread_b_lo, Pow2(34)), FMul(spread_b_hi, Pow2(38)),
                        FMul(spread_c, Pow2(42))>>)
        xor   == FSum(<<xor_0, xor_1, xor_2>>)
    IN  FAdd(spread_witness(r0_even, r0_odd, r1_even, r1_odd),
             FMul(xor, FNeg(FOne)))

\* pub fn s_lower_sigma_1: the selector parameter is not used
s_lower_sigma_1(sel, r0_even, r0_odd, r1_even, r1_odd, spread_a, spread_b_lo, spread_b_mid, spread_b_hi, spread_c, spread_d) ==
    LET xor_0 == FSum(<<spread_b_lo, FMul(spread_b_mid, Pow2(4)),
                        FMul(spread_b_hi, Pow2(8)), FMul(spread_c, Pow2(14)),
                        FMul(spread_d, Pow2(18))>>)
        xor_1 == FSum(<<spread_c, FMul(spread_d, Pow2(4)),
                        FMul(spread_a, Pow2(30)), FMul(spread_b_lo, Pow2(50)),
                        FMul(spread_b_mid, Pow2(54)), FMul(spread_b_hi, Pow2(58))>>)
        xor_2 == FSum(<<spread_d, FMul(spread_a, Pow2(26)),
                        FMul(spread_b_lo, Pow2(46)), FMul(spread_b_mid, Pow2(50)),
                        FMul(spread_b_hi, Pow2(54)), FMul(spread_c, Pow2(60))>>)
        xor   == FSum(<<xor_0, xor_1, xor_2>>)
    IN  FAdd(spread_witness(r0_even, r0_odd, r1_even, r1_odd),
             FMul(xor, FNeg(FOne)))

\* pub fn s_lower_sigma_0_v2: the selector parameter is not used
s_lower_sigma_0_v2(sel, r0_even, r0_odd, r1_even, r1_odd, spread_a, spread_b_lo, spread_b_hi, spread_c, spread_d, spread_e, spread_f, spread_g) ==
    LET xor_0 == FSum(<<spread_b_lo, FMul(spread_b_hi, Pow2(4)),
                        FMul(spread_c, Pow2(8)), FMul(spread_d, Pow2(14)),
                        FMul(spread_e, Pow2(28)), FMul(spread_f, Pow2(30)),
                        FMul(spread_g, Pow2(32))>>)
        xor_1 == FSum(<<spread_c, FMul(spread_d, Pow2(6)),
                        FMul(spread_e, Pow2(20)), FMul(spread_f, Pow2(22)),
                        FMul(spread_g, Pow2(24)), FMul(spread_a, Pow2(50)),
                        FMul(spread_b_lo, Pow2(56)), FMul(spread_b_hi, Pow2(60))>>)
        xor_2 == FSum(<<spread_f, FMul(spread_g, Pow2(2)),
                        FMul(spread_a, Pow2(28)), FMul(spread_b_lo, Pow2(34)),
                        FMul(spread_b_hi, Pow2(38)), FMul(spread_c, Pow2(42)),
                        FMul(spread_d, Pow2(48)), FMul(spread_e, Pow2(62))>>)
        xor   == FSum(<<xor_0, xor_1, xor_2>>)
    IN  FAdd(spread_witness(r0_even, r0_odd, r1_even, r1_odd),
             FMul(xor, FNeg(FOne)))

\* pub fn s_lower_sigma_1_v2: the selector parameter is not used
s_lower_sigma_1_v2(sel, r0_even, r0_odd, r1_even, r1_odd, spread_a, spread_b_lo, spread_b_hi, spread_c, spread_d, spread_e, spread_f, spread_g) ==
    LET xor_0 == FSum(<<spread_d, FMul(spread_e, Pow2(14)),
                        FMul(spread_f, Pow2(16)), FMul(spread_g, Pow2(18))>>)
        xor_1 == FSum(<<spread_e, FMul(spread_f, Pow2(2)),
                        FMul(spread_g, Pow2(4)), FMul(spread_a, Pow2(30)),
                        FMul(spread_b_lo, Pow2(36)), FMul(spread_b_hi, Pow2(40)),
                        FMul(spread_c, Pow2(44)), FMul(spread_d, Pow2(50))>>)
        xor_2 == FSum(<<spread_g, FMul(spread_a, Pow2(26)),
                        FMul(spread_b_lo, Pow2(32)), FMul(spread_b_hi, Pow2(36)),
                        FMul(spread_c, Pow2(40)), FMul(spread_d, Pow2(46)),
                        FMul(spread_e, Pow2(60)), FMul(spread_f, Pow2(62))>>)
        xor   == FSum(<<xor_0, xor_1, xor_2>>)
    IN  FAdd(spread_witness(r0_even, r0_odd, r1_even, r1_odd),
             FMul(xor, FNeg(FOne)))

\* ------------------------------------------------------------------------
\* Reference arithmetic on bits, used to draw the gates' arguments
\* ------------------------------------------------------------------------

\* the bits with a zero bit after each of them
RECURSIVE SpreadBits(_)
SpreadBits(bits) ==
    IF bits = <<>> THEN <<>> ELSE <<bits[1], 0>> \o SpreadBits(Tail(bits))

\* interleave_with_zero of an n-bit d, as an integer
Interleave(d, n) == BitsInt(SpreadBits(DigitBits(d, n)))

\* a word's bits cut into chunks of the given widths, lowest chunk first
RECURSIVE SplitBits(_, _)
SplitBits(bits, widths) ==
    IF widths = <<>> THEN <<>>
    ELSE <<SubSeq(bits, 1, widths[1])>> \o
         SplitBits(SubSeq(bits, widths[1] + 1, Len(bits)), Tail(widths))

\* the sum of the widths before position j
RECURSIVE OffsetOf(_, _)
OffsetOf(widths, j) == IF j = 1 THEN 0 ELSE widths[j - 1] + OffsetOf(widths, j - 1)

\* the sum of the chunks, each shifted left by the widths before it
RECURSIVE ShiftedSumFrom(_, _, _)
ShiftedSumFrom(widths, chunks, j) ==
    IF j > Len(widths) THEN FZero
    ELSE FAdd(FMul(FInt(chunks[j]), Pow2(OffsetOf(widths, j))),
              ShiftedSumFrom(widths, chunks, j + 1))

ShiftedSum(widths, chunks) == ShiftedSumFrom(widths, chunks, 1)

\* word as u16, (word >> 16) as u16
Lo16(word) == NatStrip(<<Digit(word, 1), Digit(word, 2)>>)
Hi16(word) == NatStrip(<<Digit(word, 3), Digit(word, 4)>>)

\* the chunk widths the decomposition gates declare
DecomposeWidths(k) ==
    CASE k = 0 -> <<16, 16>>
      [] k = 1 -> <<3, 4, 11, 14>>
      [] k = 2 -> <<3, 4, 3, 7, 1, 1, 13>>
      [] k = 3 -> <<10, 7, 2, 13>>

\* ------------------------------------------------------------------------
\* The arguments the gate-library calls are made with
\* ------------------------------------------------------------------------

MaxLower == 2
MaxSpan == 7
RangeMargin == 3
MaxPoints == 8
MaxPointShift == 1
MaxWordDelta == 1

Max(a, b) == IF a > b THEN a ELSE b

Bits == {0, 1}

RangeInputs ==
    UNION {UNION {{[op |-> "range_check", value |-> v, lower |-> lo, upper |-> hi] :
                      v \in (lo - RangeMargin)..(hi + RangeMargin)} :
                  hi \in Max(lo - 1, 0)..(lo + MaxSpan)} :
           lo \in 0..MaxLower}

BitRangeInputs ==
    {[op |-> o, value |-> v] :
        o \in {"two_bit_range_check", "three_bit_range_check"},
        v \in (0 - RangeMargin)..(2^3 - 1 + RangeMargin)}

\* the evaluations a caller may hand over at the n sample points
EvalsOf(kind, n) ==
    [i \in 1..n |-> CASE kind = "spread" -> Interleave(i - 1, 4)
                      [] kind = "ones"   -> 1
                      [] kind = "square" -> (i - 1) * (i - 1)]

LagrangeInputs ==
    UNION {{[op |-> "lagrange_interpolate",
             points |-> [j \in 1..n |-> shift + j - 1],
             evals |-> EvalsOf(kind, n), i |-> i] :
               shift \in 0..MaxPointShift,
               kind \in {"spread", "ones", "square"},
               i \in 1..n} :
           n \in 1..MaxPoints}

SpreadInputs ==
    {[op |-> "two_bit_spread", dense |-> d, delta |-> p] :
        d \in 0..(2^2 - 1), p \in {-1, 0, 1}}
    \cup
    {[op |-> "three_bit_spread", dense |-> d, delta |-> p] :
        d \in 0..(2^3 - 1), p \in {-1, 0, 1}}

S2xInputs ==
    {[op |-> "s22", sel |-> s, dense_0 |-> d0, dense_1 |-> d1, delta |-> p] :
        s \in Bits, d0 \in 0..(2^2 - 1), d1 \in 0..(2^2 - 1), p \in Bits}
    \cup
    {[op |-> "s23", sel |-> s, dense_0 |-> d0, dense_1 |-> d1, delta |-> p] :
        s \in Bits, d0 \in 0..(2^2 - 1), d1 \in 0..(2^3 - 1), p \in Bits}

\* every chunk at 0, at 1 or at the largest value of its width
ChunkTuples(widths) ==
    {[j \in 1..Len(widths) |-> IF b[j] = 2 THEN 2^widths[j] - 1 ELSE b[j]] :
        b \in [1..Len(widths) -> {0, 1, 2}]}

\* chunks within their widths, the word they make up (or one off it by
\* wdelta), and the chunk inc to raise by one (0: none)
DecomposeInputs(k) ==
    {[op |-> "s_decompose", k |-> k, sel |-> s, chunks |-> c, inc |-> j,
      word |-> FAdd(ShiftedSum(DecomposeWidths(k), c), FInt(d))] :
        s \in Bits,
        c \in ChunkTuples(DecomposeWidths(k)),
        j \in 0..Len(DecomposeWidths(k)),
        d \in 0..MaxWordDelta}

\* 32-bit words: 0, 2^32 - 1, and W_0 of the padded "abc" block
Word32Samples == {<<>>, <<255, 255, 255, 255>>, <<128, 99, 98, 97>>}

\* the word the s_word identity asks for: lo + hi * 2^16 - carry * 2^32
WordSum(s0, s1, w7, w16, carry) ==
    FSum(<<from_u64(Lo16(s0)), from_u64(Lo16(s1)), from_u64(Lo16(w7)),
           from_u64(Lo16(w16)),
           FMul(FSum(<<from_u64(Hi16(s0)), from_u64(Hi16(s1)),
                       from_u64(Hi16(w7)), from_u64(Hi16(w16))>>), Pow2(16)),
           FNeg(FMul(FInt(carry), Pow2(32)))>>)

\* what the word is off that sum by: nothing, one, or 4!
WordDeltas == {0, 1, factorial(4)}

\* the word off the sum the carry asks for by a delta, or the word the sum
\* leaves below bit 32 whatever the carry
WordInputs ==
    {[op |-> "s_word", sel |-> s, sigma_0 |-> s0, sigma_1 |-> s1, w_7 |-> w7,
      w_16 |-> w16, carry |-> c, word |-> FAdd(WordSum(s0, s1, w7, w16, c), FInt(d))] :
        s \in Bits, s0 \in Word32Samples, s1 \in Word32Samples,
        w7 \in Word32Samples, w16 \in Word32Samples,
        c \in (0 - 1)..(3 + 1), d \in WordDeltas}
    \cup
    {[op |-> "s_word", sel |-> s, sigma_0 |-> s0, sigma_1 |-> s1, w_7 |-> w7,
      w_16 |-> w16, carry |-> c,
      word |-> from_u64(BitsNat(NatBits(WordSum(s0, s1, w7, w16, 0).mag, 32)))] :
        s \in Bits, s0 \in Word32Samples, s1 \in Word32Samples,
        w7 \in Word32Samples, w16 \in Word32Samples,
        c \in (0 - 1)..(3 + 1)}

\* x >> n and x.rotate_right(n) on 32 bits, least significant bit first
Shr(bits, n) == SubSeq(bits, n + 1, Len(bits)) \o [i \in 1..n |-> 0]
Rotr(bits, n) == SubSeq(bits, n + 1, Len(bits)) \o SubSeq(bits, 1, n)

\* the field element whose bits are the given bits spread
SpreadF(bits) == from_u64(BitsNat(SpreadBits(bits)))

\* spread(x >> s) + spread(ROTR^r1(x)) + spread(ROTR^r2(x))
SpreadSum(x, s, r1, r2) ==
    LET bits == NatBits(x, 32)
    IN  FSum(<<SpreadF(Shr(bits, s)), SpreadF(Rotr(bits, r1)),
               SpreadF(Rotr(bits, r2))>>)

\* the bits at the even (p = 1) or odd (p = 2) places, spread again
RECURSIVE EveryOther(_, _)
EveryOther(bits, p) ==
    IF bits = <<>> THEN <<>>
    ELSE <<bits[p], 0>> \o EveryOther(SubSeq(bits, 3, Len(bits)), p)

\* the witness cells <<r0_even, r0_odd, r1_even, r1_odd>> of a 64-bit sum
SigmaWitness(sum) ==
    LET bits == NatBits(sum.mag, 64)
        r0   == SubSeq(bits, 1, 32)
        r1   == SubSeq(bits, 33, 64)
    IN  <<from_u64(BitsNat(EveryOther(r0, 1))), from_u64(BitsNat(EveryOther(r0, 2))),
          from_u64(BitsNat(EveryOther(r1, 1))), from_u64(BitsNat(EveryOther(r1, 2)))>>

\* the 32-bit word with bit n alone set
OneBitWord(n) == BitsNat([j \in 1..32 |-> IF j = n + 1 THEN 1 ELSE 0])

\* the words the sigma gates are called on: the samples and every one-bit word
SigmaWords == Word32Samples \cup {OneBitWord(n) : n \in 0..31}

\* a word x, the selector, and how far spread_r0_even is off the witness
SigmaInputs ==
    {[op |-> o, sel |-> s, x |-> x, delta |-> d] :
        o \in {"s_lower_sigma_0", "s_lower_sigma_1",
               "s_lower_sigma_0_v2", "s_lower_sigma_1_v2"},
        s \in Bits, x \in SigmaWords, d \in Bits}

\* the spread chunks of ev.x for the widths of decomposition k
SpreadChunks(x, k) ==
    LET c == SplitBits(NatBits(x, 32), DecomposeWidths(k))
    IN  [j \in 1..Len(c) |-> SpreadF(c[j])]

\* a chunk's spread pieces: the chunk cut into pieces of the given widths
SpreadPieces(x, k, j, widths) ==
    LET c == SplitBits(NatBits(x, 32), DecomposeWidths(k))[j]
        q == SplitBits(c, widths)
    IN  [n \in 1..Len(q) |-> SpreadF(q[n])]

\* the witness of ev.x for a sigma gate, spread_r0_even raised by ev.delta
WitnessOf(sum, delta) ==
    LET r == SigmaWitness(sum)
    IN  <<FAdd(r[1], FInt(delta)), r[2], r[3], r[4]>>

\* ------------------------------------------------------------------------
\* The gate library called on drawn arguments
\* ------------------------------------------------------------------------

SchedulerIdle ==
    /\ meta = [num_fixed_columns |-> 0, gates |-> <<>>]
    /\ config = <<>>
    /\ input = <<>>
    /\ pc = "idle"
    /\ advice = <<>>
    /\ fixed = <<>>
    /\ w = <<>>
    /\ result = "none"

GateInit ==
    /\ SchedulerIdle
    /\ out = <<>>
    /\ \/ ev \in RangeInputs
       \/ ev \in BitRangeInputs
       \/ ev \in LagrangeInputs
       \/ ev \in SpreadInputs
       \/ ev \in S2xInputs
       \/ \E k \in 0..3 : ev \in DecomposeInputs(k)
       \/ ev \in WordInputs
       \/ ev \in SigmaInputs

\* the call of ev.op returns value
Return(op, value) ==
    /\ ev.op = op
    /\ out = <<>>
    /\ out' = <<value>>
    /\ UNCHANGED <<schedulerVars, ev>>

\* chunk j of a decomposition call, raised by one when j is ev.inc
Chunk(j) == FInt(ev.chunks[j] + IF ev.inc = j THEN 1 ELSE 0)

\* the spread handed over with dense value d of n bits, off by delta
SpreadArg(d, n, delta) == FInt(Interleave(d, n) + delta)

Call_range_check ==
    Return("range_check", range_check(FInt(ev.value), ev.lower, ev.upper))

Call_two_bit_range_check ==
    Return("two_bit_range_check", two_bit_range_check(FInt(ev.value)))

Call_three_bit_range_check ==
    Return("three_bit_range_check", three_bit_range_check(FInt(ev.value)))

Call_lagrange_interpolate ==
    Return("lagrange_interpolate",
           lagrange_interpolate(FInt(ev.points[ev.i]), ev.points, ev.evals))

Call_two_bit_spread ==
    Return("two_bit_spread",
           two_bit_spread(FInt(ev.dense), SpreadArg(ev.dense, 2, ev.delta)))

Call_three_bit_spread ==
    Return("three_bit_spread",
           three_bit_spread(FInt(ev.dense), SpreadArg(ev.dense, 3, ev.delta)))

Call_s22 ==
    Return("s22", s22(FInt(ev.sel), FInt(ev.dense_0), SpreadArg(ev.dense_0, 2, 0),
                      FInt(ev.dense_1), SpreadArg(ev.dense_1, 2, ev.delta)))

Call_s23 ==
    Return("s23", s23(FInt(ev.sel), FInt(ev.dense_0), SpreadArg(ev.dense_0, 2, 0),
                      FInt(ev.dense_1), SpreadArg(ev.dense_1, 3, ev.delta)))

Call_s_decompose_0 ==
    /\ ev.op = "s_decompose" /\ ev.k = 0
    /\ Return("s_decompose",
              s_decompose_0(FInt(ev.sel), Chunk(1), Chunk(2), ev.word))

Call_s_decompose_1 ==
    /\ ev.op = "s_decompose" /\ ev.k = 1
    /\ Return("s_decompose",
              s_decompose_1(FInt(ev.sel), Chunk(1), Chunk(2), Chunk(3), Chunk(4),
                            ev.word))

Call_s_decompose_2 ==
    /\ ev.op = "s_decompose" /\ ev.k = 2
    /\ Return("s_decompose",
              s_decompose_2(FInt(ev.sel), Chunk(1), Chunk(2), Chunk(3), Chunk(4),
                            Chunk(5), Chunk(6), Chunk(7), ev.word))

Call_s_decompose_3 ==
    /\ ev.op = "s_decompose" /\ ev.k = 3
    /\ Return("s_decompose",
              s_decompose_3(FInt(ev.sel), Chunk(1), Chunk(2), Chunk(3), Chunk(4),
                            ev.word))

Call_s_word ==
    Return("s_word",
           s_word(FInt(ev.sel),
                  from_u64(Lo16(ev.sigma_0)), from_u64(Lo16(ev.sigma_1)),
                  from_u64(Lo16(ev.w_7)), from_u64(Lo16(ev.w_16)),
                  from_u64(Hi16(ev.sigma_0)), from_u64(Hi16(ev.sigma_1)),
                  from_u64(Hi16(ev.w_7)), from_u64(Hi16(ev.w_16)),
                  ev.word, FInt(ev.carry)))

Call_s_lower_sigma_0 ==
    /\ ev.op = "s_lower_sigma_0"
    /\ LET r == WitnessOf(SpreadSum(ev.x, 3, 7, 18), ev.delta)
           c == SpreadChunks(ev.x, 1)
           b == SpreadPieces(ev.x, 1, 2, <<2, 2>>)
       IN  Return("s_lower_sigma_0",
                  s_lower_sigma_0(FInt(ev.sel), r[1], r[2], r[3], r[4],
                                  c[1], b[1], b[2], c[3], c[4]))

Call_s_lower_sigma_1 ==
    /\ ev.op = "s_lower_sigma_1"
    /\ LET r == WitnessOf(SpreadSum(ev.x, 10, 17, 19), ev.delta)
           c == SpreadChunks(ev.x, 3)
           b == SpreadPieces(ev.x, 3, 2, <<2, 2, 3>>)
       IN  Return("s_lower_sigma_1",
                  s_lower_sigma_1(FInt(ev.sel), r[1], r[2], r[3], r[4],
                                  c[1], b[1], b[2], b[3], c[3], c[4]))

Call_s_lower_sigma_0_v2 ==
    /\ ev.op = "s_lower_sigma_0_v2"
    /\ LET r == WitnessOf(SpreadSum(ev.x, 3, 7, 18), ev.delta)
           c == SpreadChunks(ev.x, 2)
           b == SpreadPieces(ev.x, 2, 2, <<2, 2>>)
       IN  Return("s_lower_sigma_0_v2",
                  s_lower_sigma_0_v2(FInt(ev.sel), r[1], r[2], r[3], r[4],
                                     c[1], b[1], b[2], c[3], c[4], c[5], c[6], c[7]))

Call_s_lower_sigma_1_v2 ==
    /\ ev.op = "s_lower_sigma_1_v2"
    /\ LET r == WitnessOf(SpreadSum(ev.x, 10, 17, 19), ev.delta)
           c == SpreadChunks(ev.x, 2)
           b == SpreadPieces(ev.x, 2, 2, <<2, 2>>)
       IN  Return("s_lower_sigma_1_v2",
                  s_lower_sigma_1_v2(FInt(ev.sel), r[1], r[2], r[3], r[4],
                                     c[1], b[1], b[2], c[3], c[4], c[5], c[6], c[7]))

GateNext ==
    \/ Call_range_check
    \/ Call_two_bit_range_check
    \/ Call_three_bit_range_check
    \/ Call_lagrange_interpolate
    \/ Call_two_bit_spread
    \/ Call_three_bit_spread
    \/ Call_s22
    \/ Call_s23
    \/ Call_s_decompose_0
    \/ Call_s_decompose_1
    \/ Call_s_decompose_2
    \/ Call_s_decompose_3
    \/ Call_s_word
    \/ Call_s_lower_sigma_0
    \/ Call_s_lower_sigma_1
    \/ Call_s_lower_sigma_0_v2
    \/ Call_s_lower_sigma_1_v2

GateSpec == GateInit /\ [][GateNext]_vars

\* ------------------------------------------------------------------------
\* message_scheduler.rs: MessageScheduler::new (configuration)
\* ------------------------------------------------------------------------

DECOMPOSE_0_ROWS == 2
DECOMPOSE_1_ROWS == 2
DECOMPOSE_2_ROWS == 3
DECOMPOSE_3_ROWS == 2
SIGMA_0_V1_ROWS == 4
SIGMA_0_V2_ROWS == 4
SIGMA_1_V1_ROWS == 4
SIGMA_1_V2_ROWS == 4

\* super::super::BLOCK_SIZE and super::ROUNDS
BLOCK_SIZE == 16
ROUNDS == 64

\* the advice columns the caller hands to new
LookupInputs == [tag |-> "lookup.tag", dense |-> "lookup.dense", spread |-> "lookup.spread"]
MessageScheduleColumn == "message_schedule"
ExtraColumns == <<"extras[0]", "extras[1]", "extras[2]", "extras[3]", "extras[4]", "extras[5]">>

\* the names of the selector fields, in the order new allocates their columns
SelectorFields ==
    <<"s_word", "s_decompose_0", "s_decompose_1", "s_decompose_2",
      "s_decompose_3", "s_lower_sigma_0", "s_lower_sigma_1",
      "s_lower_sigma_0_v2", "s_lower_sigma_1_v2", "s_reduce", "s22", "s23">>

\* meta.fixed_column(), called for the n-th time by new: the next free index
fixed_column(cs, n) == cs.num_fixed_columns + n - 1

\* the fixed column new allocates for a selector field
SelectorColumn(cs, name) ==
    fixed_column(cs, CHOOSE n \in 1..Len(SelectorFields) : SelectorFields[n] = name)

\* one meta.create_gate call: the fixed column queried as the selector and
\* the advice cells queried, <<column, rotation>>, in the gate's argument order
CreatedGate(name, selector, queries) ==
    [gate |-> name, selector |-> selector, queries |-> queries]

\* the gates new creates, in order; a_0 .. a_9 as new renames the columns
GatesOfNew(cs) ==
    LET a_0 == LookupInputs.tag
        a_1 == LookupInputs.dense
        a_2 == LookupInputs.spread
        a_3 == ExtraColumns[1]
        a_4 == ExtraColumns[2]
        a_5 == MessageScheduleColumn
        a_6 == ExtraColumns[3]
        a_7 == ExtraColumns[4]
        a_8 == ExtraColumns[5]
        a_9 == ExtraColumns[6]
        sigma_v2 == <<<<a_2, -1>>, <<a_2, 0>>, <<a_2, 1>>, <<a_3, 0>>,
                      <<a_6, -1>>, <<a_4, -1>>, <<a_4, 1>>, <<a_6, 1>>,
                      <<a_4, 0>>, <<a_7, -1>>, <<a_7, 1>>, <<a_5, 0>>>>
    IN  <<CreatedGate("s_decompose_0", SelectorColumn(cs, "s_decompose_0"),
                      <<<<a_3, 0>>, <<a_4, 0>>, <<a_5, 0>>>>),
          CreatedGate("s_decompose_1", SelectorColumn(cs, "s_decompose_1"),
                      <<<<a_3, 1>>, <<a_4, 1>>, <<a_1, 1>>, <<a_1, 0>>, <<a_5, 0>>>>),
          CreatedGate("s_decompose_2", SelectorColumn(cs, "s_decompose_2"),
                      <<<<a_3, -1>>, <<a_1, 1>>, <<a_4, -1>>, <<a_1, 0>>,
                        <<a_3, 1>>, <<a_4, 1>>, <<a_1, -1>>, <<a_5, 0>>>>),
          CreatedGate("s_decompose_3", SelectorColumn(cs, "s_decompose_3"),
                      <<<<a_3, 1>>, <<a_4, 1>>, <<a_1, 1>>, <<a_1, 0>>, <<a_5, 0>>>>),
          CreatedGate("s_word", SelectorColumn(cs, "s_word"),
                      <<<<a_6, -1>>, <<a_7, -1>>, <<a_8, -1>>, <<a_1, -1>>,
                        <<a_6, 0>>, <<a_7, 0>>, <<a_8, 0>>, <<a_1, 0>>,
                        <<a_5, 0>>, <<a_9, 0>>>>),
          CreatedGate("s22", SelectorColumn(cs, "s22"),
                      <<<<a_3, 0>>, <<a_4, 0>>, <<a_5, 0>>, <<a_6, 0>>>>),
          CreatedGate("s23", SelectorColumn(cs, "s22"),
                      <<<<a_3, 0>>, <<a_4, 0>>, <<a_5, 0>>, <<a_6, 0>>>>),
          CreatedGate("s_lower_sigma_0", SelectorColumn(cs, "s_lower_sigma_0"),
                      <<<<a_2, -1>>, <<a_2, 0>>, <<a_2, 1>>, <<a_3, 0>>,
                        <<a_6, 1>>, <<a_4, -1>>, <<a_6, -1>>, <<a_4, 0>>,
                        <<a_5, 0>>>>),
          CreatedGate("s_lower_sigma_0_v2", SelectorColumn(cs, "s_lower_sigma_0_v2"),
                      sigma_v2),
          CreatedGate("s_lower_sigma_1_v2", SelectorColumn(cs, "s_lower_sigma_1_v2"),
                      sigma_v2),
          CreatedGate("s_lower_sigma_1", SelectorColumn(cs, "s_lower_sigma_1"),
                      <<<<a_2, -1>>, <<a_2, 0>>, <<a_2, 1>>, <<a_3, 0>>,
                        <<a_4, 0>>, <<a_4, -1>>, <<a_6, -1>>, <<a_4, 1>>,
                        <<a_6, 1>>, <<a_5, 0>>>>)>>

\* the MessageScheduler new returns
SchedulerOfNew(cs) ==
    [lookup |-> LookupInputs,
     message_schedule |-> MessageScheduleColumn,
     extras |-> ExtraColumns,
     selectors |-> [name \in {SelectorFields[n] : n \in 1..Len(SelectorFields)} |->
                       SelectorColumn(cs, name)]]

\* pub(super) fn new
New ==
    /\ pc = "new"
    /\ meta' = [num_fixed_columns |-> meta.num_fixed_columns + Len(SelectorFields),
                gates |-> meta.gates \o GatesOfNew(meta)]
    /\ config' = SchedulerOfNew(meta)
    /\ pc' = "input_spread"
    /\ UNCHANGED <<input, advice, fixed, w, result, ev, out>>

\* ------------------------------------------------------------------------
\* message_scheduler.rs: MessageScheduler::process (assignment)
\* ------------------------------------------------------------------------

\* Option<T>: None is <<>>, Some(v) is <<v>>
None == <<>>
Some(v) == <<v>>
IsSome(o) == o # <<>>

\* a u16 as an integer
NatInt(n) == Digit(n, 1) + Base * Digit(n, 2)

\* super::get_tag: the bucket of a 16-bit dense value
get_tag(word) ==
    LET v == NatInt(word)
    IN  IF v < 2^7 THEN 0
        ELSE IF v < 2^10 THEN 1
        ELSE IF v < 2^11 THEN 2
        ELSE IF v < 2^13 THEN 3
        ELSE IF v < 2^14 THEN 4
        ELSE 5

\* super::interleave_u16_with_zeros
interleave_u16_with_zeros(word) == BitsNat(SpreadBits(NatBits(word, 16)))

\* fn get_spread_word(word: u16) -> SpreadWord
get_spread_word(word) ==
    [tag |-> get_tag(word), dense |-> word, spread |-> interleave_u16_with_zeros(word)]

\* the closure of input_spread on a word whose value is present
input_spread_of(value) ==
    [lo |-> get_spread_word(Lo16(value)), hi |-> get_spread_word(Hi16(value))]

\* region.assign_advice(column, row, || value): the cell, with its value
AdviceWrite(column, row, value) == [column |-> column, row |-> row, value |-> value]

\* SpreadVar::new(region, lookup, row, tag, Some(dense), Some(spread)):
\* the three lookup cells of the row are assigned
SpreadVar_new(lookup, row, sw) ==
    <<AdviceWrite(lookup.tag, row, from_u64(NatFromInt(sw.tag))),
      AdviceWrite(lookup.dense, row, from_u64(sw.dense)),
      AdviceWrite(lookup.spread, row, from_u64(sw.spread))>>

\* MessageWord { var, value }
MessageWord(column, row, value) == [var |-> <<column, row>>, value |-> value]

\* process ends with an error or a panic
Ends(how) ==
    /\ result' = how
    /\ pc' = "done"

\* lines 321-329: input_spread; word.value.unwrap() panics on None
InputSpread ==
    /\ pc = "input_spread"
    /\ IF \E i \in 1..BLOCK_SIZE : ~IsSome(input[i])
       THEN Ends("panic")
       ELSE pc' = "W_0" /\ UNCHANGED result
    /\ UNCHANGED <<meta, config, input, advice, fixed, w, ev, out>>

\* RowOf with W_14 and W_15 on the first row of their stride
RowOf_first_row(i) ==
    IF i < 14
    THEN 2 + (DECOMPOSE_1_ROWS + SIGMA_0_V1_ROWS) * (i - 1)
    ELSE LET starting_row == 2 + 13 * (DECOMPOSE_1_ROWS + SIGMA_0_V1_ROWS)
         IN  starting_row
               + (DECOMPOSE_2_ROWS + SIGMA_0_V2_ROWS + SIGMA_1_V2_ROWS) * (i - 14)

\* the row of W_i in the message_schedule column, for i in 1..15
RowOf(i) ==
    IF i < 14
    THEN 2 + (DECOMPOSE_1_ROWS + SIGMA_0_V1_ROWS) * (i - 1)
    ELSE LET starting_row == 2 + 13 * (DECOMPOSE_1_ROWS + SIGMA_0_V1_ROWS)
         IN  starting_row
               + (DECOMPOSE_2_ROWS + SIGMA_0_V2_ROWS + SIGMA_1_V2_ROWS) * (i - 14)
               + 1

\* lines 332-366: W_0, its decomposition selector and its two lookups.
\* layouter.assign_region is taken to run the closure once; both lookups of
\* W_0 are made at row 0.
AssignW0 ==
    /\ pc = "W_0"
    /\ IF ~IsSome(input[1])
       THEN Ends("SynthesisError") /\ UNCHANGED <<advice, fixed, w>>
       ELSE LET sp == input_spread_of(input[1][1])
            IN  /\ advice' = advice
                       \o <<AdviceWrite(config.message_schedule, 0, from_u64(input[1][1]))>>
                       \o SpreadVar_new(config.lookup, 0, sp.lo)
                       \o SpreadVar_new(config.lookup, 0, sp.hi)
                /\ fixed' = Append(fixed, [column |-> config.selectors.s_decompose_0,
                                           row |-> 0, value |-> FOne])
                /\ w' = Append(w, MessageWord(config.message_schedule, 0, input[1]))
                /\ pc' = "W_1_13"
                /\ UNCHANGED result
    /\ UNCHANGED <<meta, config, input, ev, out>>

\* one iteration of a loop over the input words: W_i is assigned and pushed
AssignWord(i, next) ==
    /\ IF ~IsSome(input[i + 1])
       THEN Ends("SynthesisError") /\ UNCHANGED <<advice, w>>
       ELSE /\ advice' = Append(advice, AdviceWrite(config.message_schedule, RowOf(i),
                                                     from_u64(input[i + 1][1])))
            /\ w' = Append(w, MessageWord(config.message_schedule, RowOf(i),
                                          input[i + 1]))
            /\ pc' = next
            /\ UNCHANGED result
    /\ UNCHANGED <<meta, config, input, fixed, ev, out>>

\* lines 369-384: for i in 1..14
AssignW1to13 ==
    /\ pc = "W_1_13"
    /\ AssignWord(Len(w), IF Len(w) + 1 < 14 THEN "W_1_13" ELSE "W_14_15")

\* lines 387-405: for i in 14..16
AssignW14W15 ==
    /\ pc = "W_14_15"
    /\ AssignWord(Len(w), IF Len(w) + 1 < 16 THEN "W_14_15" ELSE "finish")

\* lines 407-425: the four loops with empty bodies, Ok(()), and
\* w.try_into().unwrap(), which panics unless w holds ROUNDS words
Finish ==
    /\ pc = "finish"
    /\ Ends(IF Len(w) = ROUNDS THEN "ok" ELSE "panic")
    /\ UNCHANGED <<meta, config, input, advice, fixed, w, ev, out>>

\* what process hands back to its caller: the words on Ok, nothing otherwise
Returned == IF result = "ok" THEN w ELSE <<>>

\* ------------------------------------------------------------------------
\* The blocks process is called on
\* ------------------------------------------------------------------------

MaxPriorFixed == 1

\* the padded one-block message "abc": 0x61626380, 0, ..., 0, 0x18
AbcBlock ==
    [i \in 1..BLOCK_SIZE |->
        IF i = 1 THEN <<128, 99, 98, 97>> ELSE IF i = BLOCK_SIZE THEN <<24>> ELSE <<>>]

OnesBlock == [i \in 1..BLOCK_SIZE |-> <<255, 255, 255, 255>>]

CountBlock == [i \in 1..BLOCK_SIZE |-> <<i, 2 * i, 3 * i, 4 * i>>]

BaseBlocks == {AbcBlock, OnesBlock, CountBlock}

\* no word absent, one word absent, or all of them (no witness at all)
AbsentSets == {{}} \cup {{i} : i \in 1..BLOCK_SIZE} \cup {1..BLOCK_SIZE}

InputBlocks ==
    {[i \in 1..BLOCK_SIZE |-> IF i \in absent THEN None ELSE Some(b[i])] :
        b \in BaseBlocks, absent \in AbsentSets}

Init ==
    /\ meta \in {[num_fixed_columns |-> n, gates |-> <<>>] : n \in 0..MaxPriorFixed}
    /\ config = <<>>
    /\ input \in InputBlocks
    /\ pc = "new"
    /\ advice = <<>>
    /\ fixed = <<>>
    /\ w = <<>>
    /\ result = "none"
    /\ ev = [op |-> "none"]
    /\ out = <<>>

Next ==
    \/ New
    \/ InputSpread
    \/ AssignW0
    \/ AssignW1to13
    \/ AssignW14W15
    \/ Finish

Spec == Init /\ [][Next]_vars

\* ------------------------------------------------------------------------
\* The reference SHA-256 message schedule
\* ------------------------------------------------------------------------

XorBits(a, b) == [i \in 1..Len(a) |-> (a[i] + b[i]) % 2]

\* sigma_0(x) = ROTR^7(x) xor ROTR^18(x) xor SHR^3(x)
RefSigma0(x) ==
    LET bits == NatBits(x, 32)
    IN  BitsNat(XorBits(XorBits(Rotr(bits, 7), Rotr(bits, 18)), Shr(bits, 3)))

\* sigma_1(x) = ROTR^17(x) xor ROTR^19(x) xor SHR^10(x)
RefSigma1(x) ==
    LET bits == NatBits(x, 32)
    IN  BitsNat(XorBits(XorBits(Rotr(bits, 17), Rotr(bits, 19)), Shr(bits, 10)))

\* a + b mod 2^32
Add32(a, b) == BitsNat(NatBits(NatAdd(a, b), 32))

\* W_0 .. W_63 from the words so far: W_n is
\* sigma_1(W_{n-2}) + W_{n-7} + sigma_0(W_{n-15}) + W_{n-16} mod 2^32
RECURSIVE RefExpand(_)
RefExpand(ws) ==
    IF Len(ws) >= ROUNDS THEN ws
    ELSE LET n == Len(ws)
         IN  RefExpand(Append(ws,
                 Add32(Add32(RefSigma1(ws[n - 1]), ws[n - 6]),
                       Add32(RefSigma0(ws[n - 14]), ws[n - 15]))))

RefSchedule(block) == RefExpand(block)

\* ------------------------------------------------------------------------
\* Claims about process and new
\* ------------------------------------------------------------------------

AllPresent == \A i \in 1..BLOCK_SIZE : IsSome(input[i])

\* C1: process on 16 input words that all carry a value returns Ok with
\* exactly 64 MessageWords in index order, and for i in 0..15 word i carries
\* the value of input word i.
C1_Returns64Words ==
    (pc = "done" /\ AllPresent) =>
        /\ result = "ok"
        /\ Len(Returned) = ROUNDS
        /\ \A i \in 1..BLOCK_SIZE : Returned[i].value = input[i]

\* C2: when the value of some input word is absent, process ends by
\* returning SynthesisError (it does not panic) and hands no MessageWord to
\* its caller.
C2_AbsentValueIsSynthesisError ==
    (pc = "done" /\ ~AllPresent) =>
        /\ result = "SynthesisError"
        /\ Returned = <<>>

\* C3: new followed by process on the padded one-block "abc" message returns
\* schedule words W_16 .. W_63 equal to the reference expansion.
C3_AbcScheduleMatchesReference ==
    (pc = "done" /\ input = [i \in 1..BLOCK_SIZE |-> Some(AbcBlock[i])]) =>
        /\ result = "ok"
        /\ Len(Returned) = ROUNDS
        /\ \A i \in (BLOCK_SIZE + 1)..ROUNDS :
               Returned[i].value = Some(RefSchedule(AbcBlock)[i])

\* the created gates that query fixed column c as their selector
GatesQuerying(c) == {g \in 1..Len(meta.gates) : meta.gates[g].selector = c}

\* C10: once new has run, every selector column it allocated is queried as
\* the selector of exactly one created gate: no two gates share a selector
\* column and no allocated selector column is left without a gate.
C10_OneGatePerSelector ==
    config # <<>> =>
        \A name \in DOMAIN config.selectors :
            Cardinality(GatesQuerying(config.selectors[name])) = 1

\* ------------------------------------------------------------------------
\* Claims about the gate library
\* ------------------------------------------------------------------------

Called(op) == ev.op = op /\ out # <<>>

Vanishes == out[1] = FZero

GatesWithSelector ==
    {"s22", "s23", "s_decompose", "s_word", "s_lower_sigma_0", "s_lower_sigma_1",
     "s_lower_sigma_0_v2", "s_lower_sigma_1_v2"}

\* C4: every gate polynomial is masked by its selector: with the selector
\* at 0 it evaluates to 0 whatever the advice cells hold.
C4_MaskedBySelector ==
    (out # <<>> /\ ev.op \in GatesWithSelector /\ ev.sel = 0) => Vanishes

\* C5: with its selector at 1, s_word vanishes exactly when
\* word = lo + hi * 2^16 - carry * 2^32 and carry is in 0..3; it is nonzero
\* for carry = 4 and carry = -1 whatever the other operands are.
C5_WordGateIffSumAndCarry ==
    (Called("s_word") /\ ev.sel = 1) =>
        /\ Vanishes <=>
              /\ ev.word = WordSum(ev.sigma_0, ev.sigma_1, ev.w_7, ev.w_16, ev.carry)
              /\ ev.carry \in 0..3
        /\ ev.carry \in {4, -1} => ~Vanishes

\* the chunks a decomposition gate was called with
CalledChunks == [j \in 1..Len(ev.chunks) |-> ev.chunks[j] + IF ev.inc = j THEN 1 ELSE 0]

\* C6: with the selector at 1, each s_decompose_k vanishes exactly when word
\* is the sum of the chunks, each shifted left by the total width of the
\* chunks before it; raising one chunk by 1 with the others and word held
\* makes the gate nonzero.
C6_DecomposeIffShiftedSum ==
    (Called("s_decompose") /\ ev.sel = 1) =>
        /\ Vanishes <=> ev.word = ShiftedSum(DecomposeWidths(ev.k), CalledChunks)
        /\ (ev.inc # 0 /\ ev.word = ShiftedSum(DecomposeWidths(ev.k), ev.chunks))
               => ~Vanishes

\* C6's case: s_decompose_1 called on the largest chunks of its widths and
\* the word 2^32 - 1 they make up, where it vanishes
C6_Witness ==
    /\ Called("s_decompose") /\ ev.sel = 1 /\ ev.k = 1 /\ ev.inc = 0
    /\ ev.chunks = <<2^3 - 1, 2^4 - 1, 2^11 - 1, 2^14 - 1>>
    /\ ev.word = from_u64(<<255, 255, 255, 255>>)
    /\ Vanishes

\* C7: two_bit_spread and three_bit_spread are 0 at
\* (d, interleave_with_zero(d)) for every d of their domain, and nonzero when
\* spread is off interleave_with_zero(d) by +1 or -1.
C7_SpreadZeroAtInterleave ==
    (Called("two_bit_spread") \/ Called("three_bit_spread")) =>
        (Vanishes <=> ev.delta = 0)

\* n! as a product
RECURSIVE Product(_)
Product(n) == IF n = 0 THEN 1 ELSE n * Product(n - 1)

\* C8: lagrange_interpolate with n points returns factor = n! and an
\* expression whose value at variable = points[i] is factor * evaluations[i].
C8_LagrangeInterpolates ==
    Called("lagrange_interpolate") =>
        /\ out[1].factor = FInt(Product(Len(ev.points)))
        /\ out[1].expr = FMul(out[1].factor, FInt(ev.evals[ev.i]))

\* C9: range_check(v, lo, hi) is 0 exactly when lo <= v <= hi, for every v
\* from lo - 3 to hi + 3; two_bit_range_check and three_bit_range_check are
\* this check for [0, 3] and [0, 7].
C9_RangeCheckZeroIffInRange ==
    /\ Called("range_check") =>
           (Vanishes <=> (ev.lower <= ev.value /\ ev.value <= ev.upper))
    /\ Called("two_bit_range_check") => (Vanishes <=> ev.value \in 0..3)
    /\ Called("three_bit_range_check") => (Vanishes <=> ev.value \in 0..7)

\* C9's case: range_check called on the upper end of a range of several
\* values, where it vanishes
C9_Witness ==
    /\ Called("range_check")
    /\ ev.lower < ev.upper /\ ev.value = ev.upper
    /\ Vanishes

\* ------------------------------------------------------------------------
\* Claims about the sigma gates
\* ------------------------------------------------------------------------

SigmaGates ==
    {"s_lower_sigma_0", "s_lower_sigma_1", "s_lower_sigma_0_v2", "s_lower_sigma_1_v2"}

\* spread(x >> 3) + spread(ROTR^7 x) + spread(ROTR^18 x) for the sigma_0
\* gates, spread(x >> 10) + spread(ROTR^17 x) + spread(ROTR^19 x) for the
\* sigma_1 gates
SigmaSpreadSum(op, x) ==
    IF op \in {"s_lower_sigma_0", "s_lower_sigma_0_v2"}
    THEN SpreadSum(x, 3, 7, 18)
    ELSE SpreadSum(x, 10, 17, 19)

\* r0_even + 2 * r0_odd + 2^32 * (r1_even + 2 * r1_odd) of the cells a sigma
\* gate was called with
CalledWitness ==
    LET r == WitnessOf(SigmaSpreadSum(ev.op, ev.x), ev.delta)
    IN  FSum(<<r[1], FMul(r[2], FInt(2)),
               FMul(FAdd(r[3], FMul(r[4], FInt(2))), Pow2(32))>>)

\* C11: for a 32-bit word cut into the gate's chunk widths and handed over
\* as spread chunks, each sigma gate with its selector at 1 evaluates to the
\* witness minus spread(w >> 3) + spread(ROTR^7 w) + spread(ROTR^18 w)
\* (sigma_0 gates) or spread(w >> 10) + spread(ROTR^17 w) + spread(ROTR^19 w)
\* (sigma_1 gates): its xor operand sum is that spread sum, and it vanishes
\* exactly when the witness equals it.
C11_SigmaOperandsAreSpreadRotations ==
    (ev.op \in SigmaGates /\ out # <<>> /\ ev.sel = 1) =>
        /\ out[1] = FAdd(CalledWitness, FNeg(SigmaSpreadSum(ev.op, ev.x)))
        /\ Vanishes <=> CalledWitness = SigmaSpreadSum(ev.op, ev.x)
        /\ Vanishes <=> ev.delta = 0

\* C11's case: s_lower_sigma_0 called on the word with bit 2 alone set (the
\* top bit of chunk a) and the witness of its spread sum, where it vanishes
C11_Witness ==
    /\ Called("s_lower_sigma_0") /\ ev.sel = 1
    /\ ev.x = OneBitWord(2) /\ ev.delta = 0
    /\ Vanishes

\* ------------------------------------------------------------------------
\* Claims about the cells process assigns
\* ------------------------------------------------------------------------

\* the writes of a log (advice or fixed) that go to the cell (column, row)
WritesTo(log, column, row) ==
    {n \in 1..Len(log) : log[n].column = column /\ log[n].row = row}

\* no cell of the log is written twice with different values
SingleValued(log) ==
    \A m \in 1..Len(log) :
        \A n \in WritesTo(log, log[m].column, log[m].row) :
            log[n].value = log[m].value

\* C12: during one assign pass no (column, row) cell is written twice with
\* different values, in the advice columns or in the fixed columns; the two
\* SpreadWords of W_0 do not meet in one cell of the lookup columns.
C12_NoCellWrittenTwiceDifferently ==
    SingleValued(advice) /\ SingleValued(fixed)

\* the closure handed to assign_region has returned Ok(()): every input word
\* has been assigned and pushed
AssignPassed == pc \in {"finish", "done"} /\ Len(w) = BLOCK_SIZE

Assigned(column, row) == WritesTo(advice, column, row) # {}

\* the value a cell is left with: that of the last write to it
CellValue(column, row) ==
    LET last == CHOOSE n \in WritesTo(advice, column, row) :
                    \A m \in WritesTo(advice, column, row) : m <= n
    IN  advice[last].value

\* the rows where the selector of gate g has been set to 1
ActiveRows(g) ==
    {fixed[n].row : n \in {m \in 1..Len(fixed) :
                              fixed[m].column = g.selector /\ fixed[m].value = FOne}}

\* the value of created gate g on the cells it queries from row
GateValue(g, row) ==
    LET q == [n \in 1..Len(g.queries) |->
                 CellValue(g.queries[n][1], row + g.queries[n][2])]
        one == FOne
    IN  CASE g.gate = "s_decompose_0" -> s_decompose_0(one, q[1], q[2], q[3])
          [] g.gate = "s_decompose_1" ->
                 s_decompose_1(one, q[1], q[2], q[3], q[4], q[5])
          [] g.gate = "s_decompose_2" ->
                 s_decompose_2(one, q[1], q[2], q[3], q[4], q[5], q[6], q[7], q[8])
          [] g.gate = "s_decompose_3" ->
                 s_decompose_3(one, q[1], q[2], q[3], q[4], q[5])
          [] g.gate = "s_word" ->
                 s_word(one, q[1], q[2], q[3], q[4], q[5], q[6], q[7], q[8], q[9], q[10])
          [] g.gate = "s22" -> s22(one, q[1], q[2], q[3], q[4])
          [] g.gate = "s23" -> s23(one, q[1], q[2], q[3], q[4])
          [] g.gate = "s_lower_sigma_0" ->
                 s_lower_sigma_0(one, q[1], q[2], q[3], q[4], q[5], q[6], q[7], q[8], q[9])
          [] g.gate = "s_lower_sigma_1" ->
                 s_lower_sigma_1(one, q[1], q[2], q[3], q[4], q[5], q[6], q[7], q[8],
                                 q[9], q[10])
          [] g.gate = "s_lower_sigma_0_v2" ->
                 s_lower_sigma_0_v2(one, q[1], q[2], q[3], q[4], q[5], q[6], q[7], q[8],
                                    q[9], q[10], q[11], q[12])
          [] g.gate = "s_lower_sigma_1_v2" ->
                 s_lower_sigma_1_v2(one, q[1], q[2], q[3], q[4], q[5], q[6], q[7], q[8],
                                    q[9], q[10], q[11], q[12])

\* C13: after a successful assign pass, on every row where a selector has
\* been set to 1 every advice cell its gate queries has been assigned and the
\* gate evaluates to 0 on the assigned values; at W_0's row extras[0] and
\* extras[1] hold the lower and the upper 16-bit half of W_0.
C13_ActiveGatesAssignedAndSatisfied ==
    AssignPassed =>
        /\ \A n \in 1..Len(meta.gates) :
               \A row \in ActiveRows(meta.gates[n]) :
                   /\ \A k \in 1..Len(meta.gates[n].queries) :
                          Assigned(meta.gates[n].queries[k][1],
                                   row + meta.gates[n].queries[k][2])
                   /\ GateValue(meta.gates[n], row) = FZero
        /\ Assigned(config.extras[1], 0) /\ Assigned(config.extras[2], 0)
        /\ CellValue(config.extras[1], 0) = from_u64(Lo16(input[1][1]))
        /\ CellValue(config.extras[2], 0) = from_u64(Hi16(input[1][1]))

\* some write of the log gave the cell (column, row) this value
WrittenWith(column, row, value) ==
    \E n \in WritesTo(advice, column, row) : advice[n].value = value

\* the SpreadWord sw has been written to the three lookup columns at one row
SpreadWordWritten(sw) ==
    \E n \in 1..Len(advice) :
        /\ WrittenWith(config.lookup.tag, advice[n].row, from_u64(NatFromInt(sw.tag)))
        /\ WrittenWith(config.lookup.dense, advice[n].row, from_u64(sw.dense))
        /\ WrittenWith(config.lookup.spread, advice[n].row, from_u64(sw.spread))

\* C14: after a successful assign pass, for each of the 16 input words the
\* SpreadWords (get_tag(dense), dense, interleave_with_zero(dense)) of its
\* lower and of its upper 16-bit half have both been written to the lookup
\* columns, and s_decompose_0 has been set to 1 on row 0, the row of W_0.
C14_EveryInputWordLookedUp ==
    AssignPassed =>
        /\ \A i \in 1..BLOCK_SIZE :
               /\ SpreadWordWritten(get_spread_word(Lo16(input[i][1])))
               /\ SpreadWordWritten(get_spread_word(Hi16(input[i][1])))
        /\ \E n \in 1..Len(fixed) :
               fixed[n] = [column |-> config.selectors.s_decompose_0,
                           row |-> 0, value |-> FOne]

\* ------------------------------------------------------------------------
\* Claims about the row layout
\* ------------------------------------------------------------------------

\* the rows W_i owns, for i in 0..15
RegionRows(i) ==
    IF i = 0 THEN DECOMPOSE_0_ROWS
    ELSE IF i < 14 THEN DECOMPOSE_1_ROWS + SIGMA_0_V1_ROWS
    ELSE DECOMPOSE_2_ROWS + SIGMA_0_V2_ROWS + SIGMA_1_V2_ROWS

\* the running offset: each region starts where the previous one ends
RECURSIVE RegionStart(_)
RegionStart(i) == IF i = 0 THEN 0 ELSE RegionStart(i - 1) + RegionRows(i - 1)

InRegion(i, row) == RegionStart(i) <= row /\ row < RegionStart(i) + RegionRows(i)

\* the decomposition gates laid on W_i: s_decompose_0 on every word,
\* s_decompose_1 on W_1..W_13, s_decompose_2 on W_14 and W_15
DecomposeGatesOf(i) ==
    {"s_decompose_0"} \cup (IF i = 0 THEN {}
                            ELSE IF i < 14 THEN {"s_decompose_1"}
                            ELSE {"s_decompose_2"})

\* C15: the message_schedule cell of each assigned input word W_i lies in
\* the region the running offset gives it (W_0: DECOMPOSE_0_ROWS rows from 0;
\* W_1..W_13: DECOMPOSE_1_ROWS + SIGMA_0_V1_ROWS rows each; W_14, W_15:
\* DECOMPOSE_2_ROWS + SIGMA_0_V2_ROWS + SIGMA_1_V2_ROWS rows each; every
\* region starting where the previous one ends), and every row a
\* decomposition gate anchored at that cell queries lies in that region too.
C15_WordRegionsFollowRunningOffset ==
    config # <<>> =>
        \A n \in 1..Len(w) :
            /\ w[n].var[1] = config.message_schedule
            /\ InRegion(n - 1, w[n].var[2])
            /\ \A g \in 1..Len(meta.gates) :
                   meta.gates[g].gate \in DecomposeGatesOf(n - 1) =>
                       \A k \in 1..Len(meta.gates[g].queries) :
                           InRegion(n - 1, w[n].var[2] + meta.gates[g].queries[k][2])

\* C15's case: all 16 words assigned, W_14 on the second row of its region,
\* where s_decompose_2 reaches back to the region's first row
C15_Witness ==
    /\ Len(w) = BLOCK_SIZE
    /\ w[15].var = <<config.message_schedule, RegionStart(14) + 1>>
    /\ \E g \in 1..Len(meta.gates) :
           /\ meta.gates[g].gate = "s_decompose_2"
           /\ \E k \in 1..Len(meta.gates[g].queries) : meta.gates[g].queries[k][2] = -1

\* ------------------------------------------------------------------------
\* Claims about the carry of s_word
\* ------------------------------------------------------------------------

\* lo_sum + hi_sum * 2^16 of the four operands s_word was called with
CalledTotal == WordSum(ev.sigma_0, ev.sigma_1, ev.w_7, ev.w_16, 0).mag

\* sigma_0 + sigma_1 + w_7 + w_16 mod 2^32
CalledSum32 == Add32(Add32(ev.sigma_0, ev.sigma_1), Add32(ev.w_7, ev.w_16))

\* a field element that is an integer of [0, 2^32)
IsWord32(f) == ~f.neg /\ Len(f.mag) <= 4

\* C16: for 32-bit sigma_0, sigma_1, w_7, w_16 given as 16-bit halves,
\* lo_sum + hi_sum * 2^16 is below 4 * 2^32, and among the pairs of a word
\* of [0, 2^32) and a carry of 0..3 the s_word identity (selector at 1)
\* vanishes on one pair only: the word (sigma_0 + sigma_1 + w_7 + w_16) mod
\* 2^32 with the carry that sum leaves above bit 32.
C16_OneWordAndCarry ==
    (Called("s_word") /\ ev.sel = 1) =>
        /\ NatLess(CalledTotal, <<0, 0, 0, 0, 4>>)
        /\ (ev.carry \in 0..3 /\ IsWord32(ev.word)) =>
               (Vanishes <=> /\ ev.word = from_u64(CalledSum32)
                             /\ ev.carry = Digit(CalledTotal, 5))

\* C16's case: four operands of 2^32 - 1, whose sum carries 3, with the
\* word 2^32 - 4, where s_word vanishes
C16_Witness ==
    /\ Called("s_word") /\ ev.sel = 1 /\ ev.carry = 3
    /\ ev.sigma_0 = <<255, 255, 255, 255>> /\ ev.sigma_1 = <<255, 255, 255, 255>>
    /\ ev.w_7 = <<255, 255, 255, 255>> /\ ev.w_16 = <<255, 255, 255, 255>>
    /\ ev.word = from_u64(<<252, 255, 255, 255>>)
    /\ Vanishes

====
